---- MODULE Spec2Model ----
(***************************************************************************)
(* Model of the random-value generation facility of nutility.h: the        *)
(* function-local static engine behind urng(), the Irand and Drand         *)
(* generator classes that draw from it, and what a caller can do with the  *)
(* std::mt19937& that urng() returns.                                      *)
(*                                                                         *)
(* The machine is scaled down: int has IntBits bits (two's complement),    *)
(* the engine yields IntBits-bit words like std::mt19937 yields 32-bit     *)
(* words for a 32-bit int, and double is a grid of integers up to RMax     *)
(* (DBL_MAX) with infinities and NaN.                                      *)
(*                                                                         *)
(* The other utilities of the header have specifications of their own over *)
(* the same variables: SpecSmoke (a generator drawn from without end),     *)
(* SpecFiles (the file wrappers and get_str_from_file), SpecFill (rfill),  *)
(* SpecNum (isprime, ndigit), SpecNames (random_name, random_surname),     *)
(* SpecPrint (print, operator<< for std::pair), SpecThreads (draws from    *)
(* two threads), SpecFirst (first calls of urng() from two threads) and    *)
(* SpecSet (rfill on a std::set, fcs).                                     *)
(***************************************************************************)
EXTENDS Integers, FiniteSets, Sequences, TLC

\* ------------------------------------------------------------ bounds
IntBits == 3      \* width of int and of one engine output word
RMax == 4         \* largest finite double, in grid units
MaxSeed == 1      \* random_device yields a seed in 0..MaxSeed
MaxPos == 3       \* draws stop once the engine was invoked MaxPos times
SmokeMax == 2     \* a generator over [min, max], max up to SmokeMax, is drawn from without end
MaxFileLen == 2   \* a file holds up to MaxFileLen characters
MaxFill == 3      \* rfill is asked for up to MaxFill elements, on up to MaxFill
NumBits == 8      \* width of int where isprime and ndigit are checked: wide
                  \* enough for the trial-division loop to be entered
NameCount == 3    \* std::size(pnames), scaled to the model's int
SurnameCount == 4 \* std::size(pfnames), scaled to the model's int
MaxPrint == 2     \* print is given up to MaxPrint elements
MaxOut == 1       \* nothing more is written to a stream that holds more than MaxOut pieces

\* ------------------------------------------------------------ int
IntMod == 2 ^ IntBits
INT_MIN == -(2 ^ (IntBits - 1))
INT_MAX == 2 ^ (IntBits - 1) - 1
Int32 == INT_MIN..INT_MAX

\* static_cast<unsigned>(x) and back
ToUnsigned(x) == x % IntMod
ToSigned(u) == IF u % IntMod > INT_MAX THEN (u % IntMod) - IntMod ELSE u % IntMod

\* ------------------------------------------------------------ std::mt19937
\* The engine is a deterministic generator: a state, a transition that every
\* invocation applies, and an output word read from the new state. The state
\* is one bit wider than a word and the transition has full period.
EngMod == 2 * IntMod
EngStep(s) == (5 * s + 3) % EngMod
EngOut(s) == s \div 2
UrngMax == IntMod - 1

\* std::mt19937{seed}
SeedState(seed) == (7 * seed + 1) % EngMod

\* std::random_device{}() yields a seed, or throws when no entropy source is
\* available: the outcome is the pair (rdok, seed) of every call that seeds.
Seeds == 0..MaxSeed

\* ------------------------------------------------------------ urng()
\* static std::mt19937 eng{ std::random_device{}() }; return eng;
\* e.id counts the engine objects constructed so far (0: the static is not yet
\* initialised) and names the object the returned reference refers to. An
\* initialiser that throws leaves the static uninitialised for the next call.
\* (UrngReseeding: the engine is seeded again on every call, as
\* eng.seed(std::random_device{}()) after the static would do.)
UrngReseeding(e, rdok, seed) ==
    IF ~rdok THEN [eng |-> e, threw |-> TRUE, seeded |-> FALSE]
    ELSE [eng |-> [id |-> IF e.id = 0 THEN 1 ELSE e.id, st |-> SeedState(seed)],
          threw |-> FALSE, seeded |-> TRUE]

\* (UrngNonStatic: the engine without static, a new object on every call.)
UrngNonStatic(e, rdok, seed) ==
    IF ~rdok THEN [eng |-> e, threw |-> TRUE, seeded |-> FALSE]
    ELSE [eng |-> [id |-> e.id + 1, st |-> SeedState(seed)],
          threw |-> FALSE, seeded |-> TRUE]

\* (UrngProbe: a random_device constructed on every call, outside the
\* static's initialiser.)
UrngProbe(e, rdok, seed) ==
    IF ~rdok THEN [eng |-> e, threw |-> TRUE, seeded |-> FALSE]
    ELSE IF e.id # 0 THEN [eng |-> e, threw |-> FALSE, seeded |-> FALSE]
    ELSE [eng |-> [id |-> 1, st |-> SeedState(seed)],
          threw |-> FALSE, seeded |-> TRUE]

Urng(e, rdok, seed) ==
    IF e.id # 0 THEN [eng |-> e, threw |-> FALSE, seeded |-> FALSE]
    ELSE IF ~rdok THEN [eng |-> e, threw |-> TRUE, seeded |-> FALSE]
    ELSE [eng |-> [id |-> 1, st |-> SeedState(seed)],
          threw |-> FALSE, seeded |-> TRUE]

\* ------------------------------------------------------------ uniform_int_distribution<int>
\* Draw words until one is below past (rejection sampling); st is the engine
\* state, n the number of invocations made so far.
RECURSIVE Reject(_, _, _)
Reject(st, past, n) ==
    LET st1 == EngStep(st) IN
    IF EngOut(st1) < past THEN [st |-> st1, ret |-> EngOut(st1), calls |-> n + 1]
    ELSE Reject(st1, past, n + 1)

\* m_dist(urng()) for a <= b: the unsigned span b - a is scaled down from the
\* engine's range, or taken whole when the span is the engine's range.
\* sc: the library returns a without invoking the engine when a = b.
\* (UniformIntUnscaled: the division by scaling left out.)
UniformIntUnscaled(a, b, st, sc) ==
    LET urange == (ToUnsigned(b) - ToUnsigned(a)) % IntMod
        uerange == urange + 1
        scaling == UrngMax \div uerange
        r == IF UrngMax > urange THEN Reject(st, uerange * scaling, 0)
             ELSE [st |-> EngStep(st), ret |-> EngOut(EngStep(st)), calls |-> 1]
    IN  [st |-> r.st, calls |-> r.calls, value |-> ToSigned(r.ret + ToUnsigned(a))]

\* (UniformIntUnsigned: the result left unsigned.)
UniformIntUnsigned(a, b, st, sc) ==
    LET urange == (ToUnsigned(b) - ToUnsigned(a)) % IntMod
        uerange == urange + 1
        scaling == UrngMax \div uerange
        r == IF UrngMax > urange THEN Reject(st, uerange * scaling, 0)
             ELSE [st |-> EngStep(st), ret |-> EngOut(EngStep(st)), calls |-> 1]
        ret == IF UrngMax > urange THEN r.ret \div scaling ELSE r.ret
    IN  [st |-> r.st, calls |-> r.calls, value |-> (ret + ToUnsigned(a)) % IntMod]

\* (UniformIntByValue: the distribution run on a copy of the engine.)
UniformIntByValue(a, b, st, sc) ==
    LET urange == (ToUnsigned(b) - ToUnsigned(a)) % IntMod
        uerange == urange + 1
        scaling == UrngMax \div uerange
        r == IF UrngMax > urange THEN Reject(st, uerange * scaling, 0)
             ELSE [st |-> EngStep(st), ret |-> EngOut(EngStep(st)), calls |-> 1]
        ret == IF UrngMax > urange THEN r.ret \div scaling ELSE r.ret
    IN  [st |-> st, calls |-> r.calls, value |-> ToSigned(ret + ToUnsigned(a))]

\* (UniformIntHalfOpen: the range taken as [a, b).)
UniformIntHalfOpen(a, b, st, sc) ==
    LET urange == (ToUnsigned(b) - ToUnsigned(a)) % IntMod IN
    IF urange = 0 THEN [st |-> st, calls |-> 0, value |-> a]
    ELSE
        LET scaling == UrngMax \div urange
            r == Reject(st, urange * scaling, 0)
        IN  [st |-> r.st, calls |-> r.calls,
             value |-> ToSigned((r.ret \div scaling) + ToUnsigned(a))]

UniformInt(a, b, st, sc) ==
    LET urange == (ToUnsigned(b) - ToUnsigned(a)) % IntMod IN
    IF sc /\ urange = 0 THEN [st |-> st, calls |-> 0, value |-> a]
    ELSE IF UrngMax > urange THEN
        LET uerange == urange + 1
            scaling == UrngMax \div uerange
            r == Reject(st, uerange * scaling, 0)
        IN  [st |-> r.st, calls |-> r.calls,
             value |-> ToSigned((r.ret \div scaling) + ToUnsigned(a))]
    ELSE
        LET st1 == EngStep(st) IN
        [st |-> st1, calls |-> 1, value |-> ToSigned(EngOut(st1) + ToUnsigned(a))]

\* ------------------------------------------------------------ double
\* A double is finite (a grid point in -RMax..RMax), an infinity or NaN.
Fin(k) == [cls |-> "fin", v |-> k]
Inf(sign) == [cls |-> "inf", v |-> sign]
NaN == [cls |-> "nan", v |-> 0]
Sign(k) == IF k < 0 THEN -1 ELSE 1
Abs(k) == IF k < 0 THEN -k ELSE k

\* the exact value num/den rounded to the nearest grid point, ties to even
RoundDiv(num, den) ==
    LET q == num \div den
        r == num % den
    IN  IF 2 * r > den THEN q + 1
        ELSE IF 2 * r = den THEN q + (q % 2)
        ELSE q

\* an exact finite result k as a double: overflow gives an infinity
Overflow(k) == IF Abs(k) > RMax THEN Inf(Sign(k)) ELSE Fin(k)

\* x - y, x + y on doubles; x * (num/den) for a fraction 0 <= num/den < 1
FSub(x, y) ==
    IF x.cls = "nan" \/ y.cls = "nan" THEN NaN
    ELSE IF x.cls = "inf" /\ y.cls = "inf" THEN (IF x.v = y.v THEN NaN ELSE x)
    ELSE IF x.cls = "inf" THEN x
    ELSE IF y.cls = "inf" THEN Inf(-y.v)
    ELSE Overflow(x.v - y.v)

FAdd(x, y) ==
    IF x.cls = "nan" \/ y.cls = "nan" THEN NaN
    ELSE IF x.cls = "inf" /\ y.cls = "inf" THEN (IF x.v = y.v THEN x ELSE NaN)
    ELSE IF x.cls = "inf" THEN x
    ELSE IF y.cls = "inf" THEN y
    ELSE Overflow(x.v + y.v)

FScale(x, num, den) ==
    IF x.cls = "nan" THEN NaN
    ELSE IF x.cls = "inf" THEN (IF num = 0 THEN NaN ELSE x)
    ELSE Fin(RoundDiv(x.v * num, den))

\* x <= y on doubles: false when either is NaN
FLe(x, y) ==
    /\ x.cls # "nan" /\ y.cls # "nan"
    /\ \/ x.cls = "fin" /\ y.cls = "fin" /\ x.v <= y.v
       \/ x.cls = "inf" /\ x.v = -1
       \/ y.cls = "inf" /\ y.v = 1

\* ------------------------------------------------------------ uniform_real_distribution<double>
\* m_dist(urng()): generate_canonical invokes the engine twice (53 bits from
\* words narrower than 53 bits) for a fraction in [0, 1), and the result is
\* (b - a) * fraction + a in double arithmetic.
UniformReal(a, b, st) ==
    LET s1 == EngStep(st)
        s2 == EngStep(s1)
        num == EngOut(s1) + EngOut(s2) * IntMod
    IN  [st |-> s2, calls |-> 2,
         value |-> FAdd(FScale(FSub(Fin(b), Fin(a)), num, IntMod * IntMod), Fin(a))]

Doubles == {Fin(k) : k \in (-RMax)..RMax} \cup {Inf(1), Inf(-1), NaN}

\* uniform_real_distribution's precondition: a <= b and b - a <= DBL_MAX
RealParamsOk(a, b) == a <= b /\ b - a <= RMax

\* ------------------------------------------------------------ state
VARIABLES
    proc,      \* "running", or "aborted" once a library assertion has fired
    shortcut,  \* the build's library returns a from a one-value int range
               \* without invoking the engine (libc++, MSVC) or invokes it
    eng,       \* the static engine of urng(): [id, st]
    gens,      \* the caller's generator objects: [kind, a, b] per name
    last,      \* the last operation: what was called, the engine before it
               \* (pre) and as urng() handed it out (in), and what came back
    handles,   \* the engine objects urng() has returned references to
    seed0,     \* the seed the engine state was last set from
    pos,       \* engine invocations since then
    call,      \* the utility function last called: its arguments and outcome
    os,        \* what has been written to each output stream
    c,         \* the container handed to rfill
    fs,        \* the files an open can find, by name
    thr        \* the threads that draw: where each is in its draw

utilvars == <<call, os, c, fs, thr>>
vars == <<proc, shortcut, eng, gens, last, handles, seed0, pos,
          call, os, c, fs, thr>>

GenIds == {"A", "B"}
NoGen == [kind |-> "none", a |-> 0, b |-> 0]
\* constructor arguments: the extremes give one-value ranges, the full range,
\* an overflowing span and min > max; the default constructors give a
\* proper sub-range
IntInputs == {INT_MIN, INT_MAX}
RealInputs == {-RMax, RMax}

NoLast == [op |-> "none", g |-> "-", kind |-> "none", a |-> 0, b |-> 0,
           status |-> "ok", value |-> 0, rvalue |-> Fin(0), calls |-> 0,
           pre |-> [id |-> 0, st |-> 0], in |-> [id |-> 0, st |-> 0],
           seeded |-> FALSE]

\* the output streams of the process
Streams == {"cout", "cerr"}

\* no utility has been called, nothing written, no file, no thread
NoCall == [fn |-> "none"]
UtilIdle ==
    /\ call = NoCall
    /\ os = [st \in Streams |-> <<>>]
    /\ c = <<>>
    /\ fs = <<>>
    /\ thr = <<>>

Init ==
    /\ UtilIdle
    /\ proc = "running"
    /\ shortcut \in BOOLEAN
    /\ eng = [id |-> 0, st |-> 0]
    /\ gens = [g \in GenIds |-> NoGen]
    /\ last = NoLast
    /\ handles = {}
    /\ seed0 = 0
    /\ pos = 0

\* ------------------------------------------------------------ constructors
\* Irand(int min, int max) : m_dist{ min, max } {}
\* There is no check of min <= max: the distribution's precondition is the
\* caller's to keep. With min > max the behaviour is undefined: a checked
\* build asserts, an unchecked build stores the bounds.
IrandCtor(g, min, max) ==
    /\ proc = "running"
    /\ UNCHANGED utilvars
    /\ \/ /\ gens' = [gens EXCEPT ![g] = [kind |-> "int", a |-> min, b |-> max]]
          /\ proc' = proc
          /\ last' = [NoLast EXCEPT !.op = "ctor", !.g = g, !.kind = "int",
                                     !.a = min, !.b = max, !.pre = eng]
       \/ /\ min > max
          /\ gens' = gens
          /\ proc' = "aborted"
          /\ last' = [NoLast EXCEPT !.op = "ctor", !.g = g, !.kind = "int",
                                     !.a = min, !.b = max, !.pre = eng,
                                     !.status = "abort"]
    /\ UNCHANGED <<shortcut, eng, handles, seed0, pos>>

\* Irand() = default: uniform_int_distribution<int>{} is over [0, INT_MAX]
IrandDefault(g) ==
    /\ proc = "running"
    /\ UNCHANGED utilvars
    /\ gens' = [gens EXCEPT ![g] = [kind |-> "int", a |-> 0, b |-> INT_MAX]]
    /\ last' = [NoLast EXCEPT !.op = "ctor", !.g = g, !.kind = "int",
                               !.a = 0, !.b = INT_MAX, !.pre = eng]
    /\ UNCHANGED <<proc, shortcut, eng, handles, seed0, pos>>

\* Drand(double dmin, double dmax) : m_dist{ dmin, dmax } {}
DrandCtor(g, dmin, dmax) ==
    /\ proc = "running"
    /\ UNCHANGED utilvars
    /\ \/ /\ gens' = [gens EXCEPT ![g] = [kind |-> "real", a |-> dmin, b |-> dmax]]
          /\ proc' = proc
          /\ last' = [NoLast EXCEPT !.op = "ctor", !.g = g, !.kind = "real",
                                     !.a = dmin, !.b = dmax, !.pre = eng]
       \/ /\ ~RealParamsOk(dmin, dmax)
          /\ gens' = gens
          /\ proc' = "aborted"
          /\ last' = [NoLast EXCEPT !.op = "ctor", !.g = g, !.kind = "real",
                                     !.a = dmin, !.b = dmax, !.pre = eng,
                                     !.status = "abort"]
    /\ UNCHANGED <<shortcut, eng, handles, seed0, pos>>

\* Drand() = default: uniform_real_distribution<double>{} is over [0.0, 1.0)
DrandDefault(g) ==
    /\ proc = "running"
    /\ UNCHANGED utilvars
    /\ gens' = [gens EXCEPT ![g] = [kind |-> "real", a |-> 0, b |-> 1]]
    /\ last' = [NoLast EXCEPT !.op = "ctor", !.g = g, !.kind = "real",
                               !.a = 0, !.b = 1, !.pre = eng]
    /\ UNCHANGED <<proc, shortcut, eng, handles, seed0, pos>>

\* ------------------------------------------------------------ draws
\* The stream the engine is on: the seed its state was set from, and the
\* invocations since. A call of urng() starts it only when it finds the
\* static uninitialised.
Seed0After(seed) == IF eng.id = 0 THEN seed ELSE seed0
PosAfter(calls) == (IF eng.id = 0 THEN 0 ELSE pos) + calls

\* a call that ended in the exception of random_device
Threw(op, g) ==
    /\ last' = [NoLast EXCEPT !.op = op, !.g = g, !.kind = gens[g].kind,
                               !.a = gens[g].a, !.b = gens[g].b,
                               !.status = "threw", !.pre = eng]
    /\ UNCHANGED <<proc, shortcut, eng, gens, handles, seed0, pos>>

\* (IrandCallAdopting: a draw that makes the drawn value the lower bound of
\* its generator.)
IrandCallAdopting(g, rdok, seed) ==
    /\ proc = "running"
    /\ UNCHANGED utilvars
    /\ gens[g].kind = "int"
    /\ gens[g].a <= gens[g].b
    /\ pos < MaxPos
    /\ LET u == Urng(eng, rdok, seed)
           r == UniformInt(gens[g].a, gens[g].b, u.eng.st, shortcut)
       IN  /\ ~u.threw
           /\ handles' = handles \cup {u.eng.id}
           /\ seed0' = Seed0After(seed)
           /\ eng' = [id |-> u.eng.id, st |-> r.st]
           /\ pos' = PosAfter(r.calls)
           /\ gens' = [gens EXCEPT ![g].a = r.value]
           /\ last' = [NoLast EXCEPT !.op = "draw", !.g = g, !.kind = "int",
                         !.a = gens[g].a, !.b = gens[g].b, !.value = r.value,
                         !.calls = r.calls, !.pre = eng, !.in = u.eng,
                         !.seeded = u.seeded]
           /\ UNCHANGED <<proc, shortcut>>

\* int Irand::operator()() { return m_dist(urng()); }
IrandCall(g, rdok, seed) ==
    /\ proc = "running"
    /\ UNCHANGED utilvars
    /\ gens[g].kind = "int"
    /\ pos < MaxPos
    /\ LET u == Urng(eng, rdok, seed)
           a == gens[g].a
           b == gens[g].b
       IN  IF u.threw THEN Threw("draw", g)
           ELSE
             /\ handles' = handles \cup {u.eng.id}
             /\ seed0' = Seed0After(seed)
             /\ IF a <= b
                THEN LET r == UniformInt(a, b, u.eng.st, shortcut) IN
                     /\ eng' = [id |-> u.eng.id, st |-> r.st]
                     /\ pos' = PosAfter(r.calls)
                     /\ last' = [NoLast EXCEPT !.op = "draw", !.g = g, !.kind = "int",
                                   !.a = a, !.b = b, !.value = r.value,
                                   !.calls = r.calls, !.pre = eng, !.in = u.eng,
                                   !.seeded = u.seeded]
                \* a > b: undefined behaviour, any int may come back
                ELSE \E v \in Int32 :
                     /\ eng' = [id |-> u.eng.id, st |-> EngStep(u.eng.st)]
                     /\ pos' = PosAfter(1)
                     /\ last' = [NoLast EXCEPT !.op = "draw", !.g = g, !.kind = "int",
                                   !.a = a, !.b = b, !.value = v,
                                   !.calls = 1, !.pre = eng, !.in = u.eng,
                                   !.seeded = u.seeded]
             /\ UNCHANGED <<proc, shortcut, gens>>

\* double Drand::operator()() { return m_dist(urng()); }
DrandCall(g, rdok, seed) ==
    /\ proc = "running"
    /\ UNCHANGED utilvars
    /\ gens[g].kind = "real"
    /\ pos < MaxPos
    /\ LET u == Urng(eng, rdok, seed)
           a == gens[g].a
           b == gens[g].b
           r == UniformReal(a, b, u.eng.st)
       IN  IF u.threw THEN Threw("draw", g)
           ELSE
             /\ handles' = handles \cup {u.eng.id}
             /\ seed0' = Seed0After(seed)
             /\ eng' = [id |-> u.eng.id, st |-> r.st]
             /\ pos' = PosAfter(r.calls)
             \* a > b: undefined behaviour, any double may come back
             /\ \E v \in (IF a <= b THEN {r.value} ELSE Doubles) :
                   last' = [NoLast EXCEPT !.op = "draw", !.g = g, !.kind = "real",
                             !.a = a, !.b = b, !.rvalue = v,
                             !.calls = r.calls, !.pre = eng, !.in = u.eng,
                             !.seeded = u.seeded]
             /\ UNCHANGED <<proc, shortcut, gens>>

\* ------------------------------------------------------------ the accessor
\* a caller's own call of urng()
UrngCall(rdok, seed) ==
    /\ proc = "running"
    /\ UNCHANGED utilvars
    /\ LET u == Urng(eng, rdok, seed) IN
       IF u.threw
       THEN /\ last' = [NoLast EXCEPT !.op = "urng", !.status = "threw", !.pre = eng]
            /\ UNCHANGED <<proc, shortcut, eng, gens, handles, seed0, pos>>
       ELSE /\ eng' = u.eng
            /\ handles' = handles \cup {u.eng.id}
            /\ seed0' = Seed0After(seed)
            /\ pos' = PosAfter(0)
            /\ last' = [NoLast EXCEPT !.op = "urng", !.pre = eng, !.in = u.eng,
                                       !.seeded = u.seeded]
            /\ UNCHANGED <<proc, shortcut, gens>>

\* urng() returns std::mt19937&, not a const reference: a caller can write
\* urng().seed(s) and the engine takes the state of std::mt19937{s}.
HandleSeed(rdok, seed, s) ==
    /\ proc = "running"
    /\ UNCHANGED utilvars
    /\ LET u == Urng(eng, rdok, seed) IN
       IF u.threw
       THEN /\ last' = [NoLast EXCEPT !.op = "seed", !.status = "threw", !.pre = eng]
            /\ UNCHANGED <<proc, shortcut, eng, gens, handles, seed0, pos>>
       ELSE /\ eng' = [id |-> u.eng.id, st |-> SeedState(s)]
            /\ handles' = handles \cup {u.eng.id}
            /\ seed0' = s
            /\ pos' = 0
            /\ last' = [NoLast EXCEPT !.op = "seed", !.pre = eng, !.in = u.eng,
                                       !.seeded = u.seeded]
            /\ UNCHANGED <<proc, shortcut, gens>>

Next ==
    \/ \E g \in GenIds, min \in IntInputs, max \in IntInputs : IrandCtor(g, min, max)
    \/ \E g \in GenIds : IrandDefault(g)
    \/ \E g \in GenIds, dmin \in RealInputs, dmax \in RealInputs : DrandCtor(g, dmin, dmax)
    \/ \E g \in GenIds : DrandDefault(g)
    \/ \E g \in GenIds, rdok \in BOOLEAN, seed \in Seeds : IrandCall(g, rdok, seed)
    \/ \E g \in GenIds, rdok \in BOOLEAN, seed \in Seeds : DrandCall(g, rdok, seed)
    \/ \E rdok \in BOOLEAN, seed \in Seeds : UrngCall(rdok, seed)
    \/ \E rdok \in BOOLEAN, seed \in Seeds, s \in Seeds : HandleSeed(rdok, seed, s)

Spec == Init /\ [][Next]_vars

\* ------------------------------------------------------------ properties
\* n invocations of the engine from state st
RECURSIVE EngAdvance(_, _)
EngAdvance(st, n) == IF n = 0 THEN st ELSE EngAdvance(EngStep(st), n - 1)

CallOps == {"draw", "urng", "seed"}
DrewOk == last.op = "draw" /\ last.status = "ok"
DrewInt == DrewOk /\ last.kind = "int"
DrewReal == DrewOk /\ last.kind = "real"

\* C1: every value an integer generator with min <= max returns lies in
\* [min, max], the full int range included, whatever was drawn before from
\* this or another generator.
IntDrawInRange ==
    (DrewInt /\ last.a <= last.b) => (last.a <= last.value /\ last.value <= last.b)

\* a negative value from the full range, after earlier draws
IntDrawInRangeWitness ==
    /\ DrewInt /\ last.a = INT_MIN /\ last.b = INT_MAX
    /\ last.value < 0
    /\ pos > last.calls

\* C7: an integer generator with min = max returns that value on every draw.
DegenerateReturnsMin ==
    (DrewInt /\ last.a = last.b) => last.value = last.a

\* a one-value range drawn by a library that invokes the engine for it, not
\* as the first draw of the process
DegenerateReturnsMinWitness ==
    /\ DrewInt /\ last.a = INT_MAX /\ last.b = INT_MAX
    /\ last.value = INT_MAX
    /\ last.calls > 0
    /\ pos > last.calls

\* C2: constructing a generator with min > max is rejected at construction
\* and produces no generator; no draw is ever made from such bounds.
InvalidRangeRejected ==
    /\ \A g \in GenIds : gens[g].kind # "none" => gens[g].a <= gens[g].b
    /\ (last.op = "ctor" /\ last.a > last.b) => last.status = "abort"
    /\ last.op = "draw" => last.a <= last.b

\* C3 as stated: the engine is constructed exactly once, by the first call
\* that needs it: not before any call, not by a constructor, and after any
\* call that needs it the engine is there.
EngineBuiltByFirstCall ==
    /\ eng.id <= 1
    /\ last.op = "none" => eng.id = 0
    /\ last.op = "ctor" => eng = last.pre
    /\ last.op \in CallOps => eng.id = 1

\* C3 as amended: the engine is constructed at most once, by the first call
\* of urng() whose seeding succeeds: not before any call and not by a
\* constructor; a call whose seeding throws constructs nothing, every call
\* that returns hands out the one engine, and a call that finds it
\* constructed neither constructs nor seeds.
EngineBuiltOnce ==
    /\ eng.id <= 1
    /\ last.op = "none" => eng.id = 0
    /\ last.op = "ctor" => eng = last.pre
    /\ last.op \in CallOps =>
          IF last.status = "threw"
          THEN last.pre.id = 0 /\ eng = last.pre
          ELSE /\ eng.id = 1 /\ last.in.id = 1
               /\ last.seeded <=> last.pre.id = 0
               /\ last.pre.id = 1 => last.in = last.pre

\* a draw that found the engine constructed and reused it
EngineBuiltOnceWitness ==
    DrewOk /\ last.pre.id = 1 /\ ~last.seeded /\ last.in = last.pre /\ eng.id = 1

SharedStream ==
    eng.id # 0 =>
        /\ eng.st = EngAdvance(SeedState(seed0), pos)
        /\ last.op = "ctor" => eng = last.pre
        /\ (DrewOk /\ last.a <= last.b) =>
              /\ pos >= last.calls
              /\ last.in.st = EngAdvance(SeedState(seed0), pos - last.calls)
              /\ last.kind = "int" =>
                    last.value = UniformInt(last.a, last.b, last.in.st, shortcut).value
              /\ last.kind = "real" =>
                    last.rvalue = UniformReal(last.a, last.b, last.in.st).value

\* a real generator B draws right after a draw of one word by an integer
\* generator, further down the stream that draw started
SharedStreamWitness ==
    /\ DrewReal /\ last.g = "B" /\ last.a <= last.b
    /\ gens["A"].kind = "int"
    /\ last.pre.id = 1
    /\ pos = last.calls + 1

\* C6: every call of urng() returns a reference to the same engine object.
SameEngineEveryCall ==
    /\ Cardinality(handles) <= 1
    /\ \A h \in handles : h = eng.id
    /\ (last.op \in CallOps /\ last.status = "ok") =>
          (last.in.id = eng.id /\ eng.id \in handles)

\* a caller's own call, after draws, returns the engine the draws used
SameEngineEveryCallWitness ==
    /\ last.op = "urng" /\ last.status = "ok"
    /\ last.pre.id = 1 /\ pos > 0
    /\ handles = {1} /\ eng = last.pre

\* C8 as stated: every draw from a generator with valid bounds leaves the
\* engine in another state than it found it.
DrawAdvancesEngine ==
    (DrewOk /\ last.a <= last.b) => eng.st # last.in.st

\* C8 as amended: a draw from a real generator, or from an integer generator
\* whose range holds more than one value, advances the engine; a draw from a
\* one-value integer range advances it where the library invokes the engine
\* for such a range and leaves it as it was where the library returns min
\* directly.
DrawAdvancesUnlessShortcut ==
    (DrewOk /\ last.a <= last.b) =>
        IF last.kind = "int" /\ last.a = last.b /\ shortcut
        THEN eng = last.in /\ last.calls = 0
        ELSE eng.st # last.in.st /\ eng.id = last.in.id /\ last.calls >= 1

\* a draw from a proper integer range that rejected a word
DrawAdvancesUnlessShortcutWitness ==
    DrewInt /\ last.a < last.b /\ last.calls > 1 /\ eng.st # last.in.st

\* C9 as stated: no draw from a generator with valid bounds fails.
ValidDrawNeverFails ==
    (last.op = "draw" /\ last.a <= last.b) => last.status = "ok"

\* C9 as amended: a draw from a generator with valid bounds fails only when
\* it finds the engine not yet constructed and seeding it throws; the engine
\* then stays unconstructed, and once it is constructed no draw fails.
DrawFailsOnlySeeding ==
    (last.op = "draw" /\ last.a <= last.b /\ last.status # "ok") =>
        /\ last.status = "threw"
        /\ last.pre.id = 0
        /\ eng = last.pre
        /\ proc = "running"

\* the first draw of an integer generator with valid bounds has thrown
DrawFailsOnlySeedingWitness ==
    /\ last.op = "draw" /\ last.kind = "int" /\ last.a <= last.b
    /\ last.status = "threw" /\ eng.id = 0

\* C10: every value a real generator with min <= max returns lies in
\* [min, max].
RealDrawInRange ==
    (DrewReal /\ last.a <= last.b) =>
        (FLe(Fin(last.a), last.rvalue) /\ FLe(last.rvalue, Fin(last.b)))

\* ============================================================ a generator drawn from without end
\* One generator over [min, max] and a loop of draws from it. The engine is
\* followed by its state alone: seed0 and pos are left where they are.
\* call.seen holds the values the loop has drawn so far.

\* Irand rand{ min, max };
SmokeStart(min, max) ==
    /\ call = NoCall
    /\ gens' = [gens EXCEPT !["A"] = [kind |-> "int", a |-> min, b |-> max]]
    /\ call' = [fn |-> "smoke", status |-> "running", seen |-> {}]
    /\ last' = [NoLast EXCEPT !.op = "ctor", !.g = "A", !.kind = "int",
                               !.a = min, !.b = max, !.pre = eng]
    /\ UNCHANGED <<proc, shortcut, eng, handles, seed0, pos, os, c, fs, thr>>

\* rand() in the loop: int Irand::operator()() { return m_dist(urng()); }
\* An exception of the first call leaves the loop.
SmokeDraw(rdok, seed) ==
    /\ call.fn = "smoke" /\ call.status = "running"
    /\ LET u == Urng(eng, rdok, seed)
           a == gens["A"].a
           b == gens["A"].b
           r == UniformInt(a, b, u.eng.st, shortcut)
       IN  IF u.threw
           THEN /\ call' = [call EXCEPT !.status = "threw"]
                /\ last' = [NoLast EXCEPT !.op = "draw", !.g = "A", !.kind = "int",
                                           !.a = a, !.b = b, !.status = "threw",
                                           !.pre = eng]
                /\ UNCHANGED <<eng, handles>>
           ELSE /\ eng' = [id |-> u.eng.id, st |-> r.st]
                /\ handles' = handles \cup {u.eng.id}
                /\ call' = [call EXCEPT !.seen = call.seen \cup {r.value}]
                /\ last' = [NoLast EXCEPT !.op = "draw", !.g = "A", !.kind = "int",
                                           !.a = a, !.b = b, !.value = r.value,
                                           !.calls = r.calls, !.pre = eng,
                                           !.in = u.eng, !.seeded = u.seeded]
    /\ UNCHANGED <<proc, shortcut, gens, seed0, pos, os, c, fs, thr>>

NextSmoke ==
    \/ \E min \in {-1, 0}, max \in 1..SmokeMax : SmokeStart(min, max)
    \/ \E rdok \in BOOLEAN, seed \in Seeds : SmokeDraw(rdok, seed)

\* the loop goes on as long as it can
SpecSmoke == Init /\ [][NextSmoke]_vars /\ WF_vars(NextSmoke)

SmokeThrew == call.fn = "smoke" /\ call.status = "threw"
SmokeAllSeen == call.fn = "smoke" /\ call.seen = gens["A"].a .. gens["A"].b

\* C11: a loop of draws from a generator over [min, max] that goes on drawing
\* eventually has drawn every value of the range (or was ended by the
\* exception of its first draw, before any value came back).
EveryValueEventuallyDrawn == <>(SmokeThrew \/ SmokeAllSeen)

\* every value of the widest range has come back
EveryValueEventuallyDrawnWitness ==
    /\ SmokeAllSeen
    /\ gens["A"].a = 0 /\ gens["A"].b = SmokeMax
    /\ Cardinality(call.seen) = SmokeMax + 1

\* ============================================================ file operations
\* the generator facility at rest, while the utilities run
GenIdle ==
    /\ proc = "running"
    /\ shortcut = FALSE
    /\ eng = [id |-> 0, st |-> 0]
    /\ gens = [g \in GenIds |-> NoGen]
    /\ last = NoLast
    /\ handles = {}
    /\ seed0 = 0
    /\ pos = 0

genvars == <<proc, shortcut, eng, gens, last, handles, seed0, pos>>

\* A file name leads to nothing (w: the name can be created) or to a file
\* (r, w: it can be opened for reading, for writing) with its characters;
\* a read delivers the first good of them and then meets an I/O error when
\* good is less than their number.
FileNames == {"a.txt", "b.txt"}
FileContents == {SubSeq(<<"x", "y", "z">>, 1, n) : n \in 0..MaxFileLen}
NoFile(w) == [exists |-> FALSE, r |-> FALSE, w |-> w, content |-> <<>>, good |-> 0]
FileStates ==
    {NoFile(w) : w \in BOOLEAN} \cup
    UNION {{[exists |-> TRUE, r |-> r, w |-> w, content |-> ct, good |-> gd] :
               r \in BOOLEAN, w \in BOOLEAN, gd \in 0..Len(ct)} :
           ct \in FileContents}

NoStream == [kind |-> "none", filename |-> "", binary |-> FALSE,
             is_open |-> FALSE, fail |-> TRUE]

\* std::ifstream ifs{ filename, mode }: the constructor opens the file for
\* reading and sets failbit when that fails
Ifstream(f, filename, binary) ==
    LET opened == f[filename].exists /\ f[filename].r IN
    [kind |-> "ifstream", filename |-> filename, binary |-> binary,
     is_open |-> opened, fail |-> ~opened]

\* std::ofstream ofs{ filename, mode }: the constructor creates the file, or
\* empties the one that is there, and sets failbit when that fails
Ofstream(f, filename, binary) ==
    LET opened == f[filename].w IN
    [kind |-> "ofstream", filename |-> filename, binary |-> binary,
     is_open |-> opened, fail |-> ~opened]
OfstreamFs(f, filename) ==
    IF f[filename].w
    THEN [f EXCEPT ![filename] = [exists |-> TRUE, r |-> TRUE, w |-> TRUE,
                                  content |-> <<>>, good |-> 0]]
    ELSE f

\* how a call ends: with a value, or with an exception thrown to the caller
Returned(fn, filename, stream, ret) ==
    [fn |-> fn, filename |-> filename, status |-> "ok", exc |-> "none",
     stream |-> stream, ret |-> ret]
Thrown(fn, filename, exc) ==
    [fn |-> fn, filename |-> filename, status |-> "throw", exc |-> exc,
     stream |-> NoStream, ret |-> <<>>]

\* (open_text_file_unchecked: the stream returned without the test.)
open_text_file_unchecked(f, filename) ==
    Returned("open_text_file", filename, Ifstream(f, filename, FALSE), <<>>)

\* std::ifstream ifs{ filename };
\* if (!ifs) throw std::runtime_error{ ... };  return ifs;
open_text_file(f, filename) ==
    LET ifs == Ifstream(f, filename, FALSE) IN
    IF ifs.fail THEN Thrown("open_text_file", filename, "std::runtime_error")
    ELSE Returned("open_text_file", filename, ifs, <<>>)

\* std::ofstream ofs{ filename };
\* if (!ofs) throw std::runtime_error{ ... };  return ofs;
create_text_file(f, filename) ==
    LET ofs == Ofstream(f, filename, FALSE) IN
    IF ofs.fail THEN Thrown("create_text_file", filename, "std::runtime_error")
    ELSE Returned("create_text_file", filename, ofs, <<>>)

\* std::ifstream ifs{ filename, std::ios::binary };
open_binary_file(f, filename) ==
    LET ifs == Ifstream(f, filename, TRUE) IN
    IF ifs.fail THEN Thrown("open_binary_file", filename, "std::runtime_error")
    ELSE Returned("open_binary_file", filename, ifs, <<>>)

\* std::ofstream ofs{ filename, std::ios::binary };
create_binary_file(f, filename) ==
    LET ofs == Ofstream(f, filename, TRUE) IN
    IF ofs.fail THEN Thrown("create_binary_file", filename, "std::runtime_error")
    ELSE Returned("create_binary_file", filename, ofs, <<>>)

\* a call of one of the wrappers; call.pre is the file as the call found it
OpenTextFile(filename) ==
    /\ proc = "running"
    /\ call' = open_text_file(fs, filename) @@ [pre |-> fs[filename]]
    /\ UNCHANGED <<genvars, os, c, fs, thr>>

CreateTextFile(filename) ==
    /\ proc = "running"
    /\ call' = create_text_file(fs, filename) @@ [pre |-> fs[filename]]
    /\ fs' = OfstreamFs(fs, filename)
    /\ UNCHANGED <<genvars, os, c, thr>>

OpenBinaryFile(filename) ==
    /\ proc = "running"
    /\ call' = open_binary_file(fs, filename) @@ [pre |-> fs[filename]]
    /\ UNCHANGED <<genvars, os, c, fs, thr>>

CreateBinaryFile(filename) ==
    /\ proc = "running"
    /\ call' = create_binary_file(fs, filename) @@ [pre |-> fs[filename]]
    /\ fs' = OfstreamFs(fs, filename)
    /\ UNCHANGED <<genvars, os, c, thr>>

\* what oss << ifs.rdbuf() collects: the characters up to the end of the file
\* or to the first read error; the stream's exception mask is empty, so a
\* read error is not reported
ReadAll(f, filename) == SubSeq(f[filename].content, 1, f[filename].good)

\* std::ifstream ifs{ open_text_file(filename) };
\* std::ostringstream oss;  oss << ifs.rdbuf();  return oss.str();
get_str_from_file(f, filename) ==
    LET o == open_text_file(f, filename) IN
    IF o.status = "throw" THEN Thrown("get_str_from_file", filename, o.exc)
    ELSE Returned("get_str_from_file", filename, NoStream, ReadAll(f, filename))

\* the revision before open_text_file was used:
\* std::ifstream ifs{ filename };
\* if (!ifs) { std::cerr << "cannot open file\n"; std::exit(EXIT_FAILURE); }
get_str_from_file_exit(f, filename) ==
    LET ifs == Ifstream(f, filename, FALSE) IN
    IF ifs.fail
    THEN [fn |-> "get_str_from_file", filename |-> filename, status |-> "exit",
          exc |-> "none", stream |-> NoStream, ret |-> <<>>]
    ELSE Returned("get_str_from_file", filename, NoStream, ReadAll(f, filename))

GetStrFromFile(filename) ==
    /\ proc = "running"
    /\ call' = get_str_from_file(fs, filename) @@ [pre |-> fs[filename]]
    /\ UNCHANGED <<genvars, os, c, fs, thr>>

GetStrFromFileExit(filename) ==
    /\ proc = "running"
    /\ LET r == get_str_from_file_exit(fs, filename) IN
       /\ call' = r @@ [pre |-> fs[filename]]
       /\ proc' = IF r.status = "exit" THEN "exited" ELSE proc
       /\ os' = IF r.status = "exit"
                THEN [os EXCEPT !["cerr"] = Append(@, "cannot open file\n")]
                ELSE os
    /\ UNCHANGED <<shortcut, eng, gens, last, handles, seed0, pos, c, fs, thr>>

InitFiles ==
    /\ GenIdle
    /\ call = NoCall
    /\ os = [st \in Streams |-> <<>>]
    /\ c = <<>>
    /\ thr = <<>>
    /\ fs \in [FileNames -> FileStates]

NextFiles ==
    \/ \E filename \in FileNames : OpenTextFile(filename)
    \/ \E filename \in FileNames : CreateTextFile(filename)
    \/ \E filename \in FileNames : OpenBinaryFile(filename)
    \/ \E filename \in FileNames : CreateBinaryFile(filename)
    \/ \E filename \in FileNames : GetStrFromFile(filename)
    \/ \E filename \in FileNames : GetStrFromFileExit(filename)

SpecFiles == InitFiles /\ [][NextFiles]_vars

OpenFns == {"open_text_file", "open_binary_file"}
CreateFns == {"create_text_file", "create_binary_file"}
\* the file the call named could be opened, or created, as the call found it
CanOpen ==
    IF call.fn \in CreateFns THEN call.pre.w ELSE call.pre.exists /\ call.pre.r

\* C12: each of the four wrappers throws std::runtime_error and returns no
\* stream when the file cannot be opened or created; when it returns, the
\* stream it returns is open on the file it was asked for.
OpenThrowsOrReturnsOpen ==
    call.fn \in OpenFns \cup CreateFns =>
        IF CanOpen
        THEN /\ call.status = "ok"
             /\ call.stream.is_open /\ ~call.stream.fail
             /\ call.stream.filename = call.filename
        ELSE /\ call.status = "throw"
             /\ call.exc = "std::runtime_error"
             /\ call.stream = NoStream

\* a file that is there but cannot be read, next to one that can
OpenThrowsOrReturnsOpenWitness ==
    /\ call.fn = "open_binary_file"
    /\ call.status = "throw"
    /\ call.pre.exists /\ ~call.pre.r
    /\ \E n \in FileNames : n # call.filename /\ fs[n].exists /\ fs[n].content = <<>>
                            /\ fs[n].r /\ fs[n].w

\* C13: get_str_from_file returns the whole content of the file, and throws
\* std::ifstream::failure when the file cannot be opened or read: it neither
\* returns part of the content nor ends the process.
GetStrThrowsFailure ==
    call.fn = "get_str_from_file" =>
        IF CanOpen /\ call.pre.good = Len(call.pre.content)
        THEN call.status = "ok" /\ call.ret = call.pre.content
        ELSE call.status = "throw" /\ call.exc = "std::ifstream::failure"

\* ============================================================ rfill
\* A container is its kind and its elements in iteration order. "vector"
\* stands for the containers the generic overload takes (size, insert, end);
\* a std::forward_list goes to the overload of its own.
ContainerKinds == {"vector", "forward_list"}
Elems == {0, 1}
SeqsUpTo(n) == UNION {[1..k -> Elems] : k \in 0..n}

\* frand is called with no argument: the values of its successive calls are
\* vals[1], vals[2], ...; k calls have been made

\* (rfill_inclusive: the loop test as c.size() <= n.)
RECURSIVE rfill_inclusive(_, _, _, _)
rfill_inclusive(elems, n, vals, k) ==
    IF Len(elems) <= n /\ k < Len(vals)
    THEN rfill_inclusive(Append(elems, vals[k + 1]), n, vals, k + 1)
    ELSE [elems |-> elems, calls |-> k]

\* while (c.size() < n) c.insert(c.end(), frand());
RECURSIVE rfill(_, _, _, _)
rfill(elems, n, vals, k) ==
    IF Len(elems) < n
    THEN rfill(Append(elems, vals[k + 1]), n, vals, k + 1)
    ELSE [elems |-> elems, calls |-> k]

\* while (n--) c.insert_after(c.before_begin(), frand());
RECURSIVE rfill_forward_list(_, _, _, _)
rfill_forward_list(elems, n, vals, k) ==
    IF n # 0
    THEN rfill_forward_list(<<vals[k + 1]>> \o elems, n - 1, vals, k + 1)
    ELSE [elems |-> elems, calls |-> k]

\* rfill(c, n, frand): overload resolution picks by the container's type
Rfill(n, vals) ==
    /\ call.fn \in {"none", "rfill"}
    /\ LET r == IF c.kind = "forward_list"
                THEN rfill_forward_list(c.elems, n, vals, 0)
                ELSE rfill(c.elems, n, vals, 0)
       IN  /\ c' = [c EXCEPT !.elems = r.elems]
           /\ call' = [fn |-> "rfill", n |-> n, vals |-> vals, pre |-> c.elems,
                       calls |-> r.calls]
    /\ UNCHANGED <<genvars, os, fs, thr>>

InitFill ==
    /\ GenIdle
    /\ call = NoCall
    /\ os = [st \in Streams |-> <<>>]
    /\ fs = <<>>
    /\ thr = <<>>
    /\ c \in [kind : ContainerKinds, elems : SeqsUpTo(MaxFill)]

NextFill ==
    \E n \in 0..MaxFill, vals \in [1..MaxFill -> Elems] :
        Len(c.elems) + n <= 2 * MaxFill /\ Rfill(n, vals)

SpecFill == InitFill /\ [][NextFill]_vars

RfillAtMostN == call.fn = "rfill" /\ Len(call.pre) <= call.n
Reversed(sq) == [i \in 1..Len(sq) |-> sq[Len(sq) + 1 - i]]

\* C14 (as stated): rfill on a sequence container holding at most n elements
\* returns with n elements, the earlier elements unchanged at their
\* positions, and frand called n minus the initial size times.
RfillSizeReachesN ==
    RfillAtMostN =>
        /\ Len(c.elems) = call.n
        /\ SubSeq(c.elems, 1, Len(call.pre)) = call.pre
        /\ call.calls = call.n - Len(call.pre)

\* C14 (amended): that holds for the containers of the generic overload, the
\* new elements being frand's values in call order at the end; on a
\* std::forward_list rfill puts n new values in front of the elements that
\* were there, last drawn first, and calls frand n times.
RfillByOverload ==
    RfillAtMostN =>
        IF c.kind = "forward_list"
        THEN /\ Len(c.elems) = Len(call.pre) + call.n
             /\ SubSeq(c.elems, call.n + 1, Len(c.elems)) = call.pre
             /\ SubSeq(c.elems, 1, call.n) = Reversed(SubSeq(call.vals, 1, call.n))
             /\ call.calls = call.n
        ELSE /\ Len(c.elems) = call.n
             /\ SubSeq(c.elems, 1, Len(call.pre)) = call.pre
             /\ SubSeq(c.elems, Len(call.pre) + 1, call.n)
                   = SubSeq(call.vals, 1, call.n - Len(call.pre))
             /\ call.calls = call.n - Len(call.pre)

\* a vector of one element filled up to three with two different values
RfillByOverloadWitness ==
    /\ call.fn = "rfill" /\ c.kind = "vector"
    /\ Len(call.pre) = 1 /\ call.n = 3
    /\ Len(c.elems) = 3 /\ c.elems[2] # c.elems[3]
    /\ call.calls = 2

\* ============================================================ isprime, ndigit
\* int as these functions see it: NumBits bits, two's complement
NumMin == -(2 ^ (NumBits - 1))
NumMax == 2 ^ (NumBits - 1) - 1
NumInts == NumMin..NumMax

\* for (int k = 7; k * k <= val; k += 2) if (val % k == 0) return false;
\* return true;
\* k * k is an int multiplication: a product above the largest int is
\* undefined behaviour, and the loop is left with ub set.
RECURSIVE isprime_loop(_, _)
isprime_loop(val, k) ==
    IF k * k > NumMax THEN [ub |-> TRUE, ret |-> FALSE, k |-> k]
    ELSE IF k * k <= val
         THEN IF val % k = 0 THEN [ub |-> FALSE, ret |-> FALSE, k |-> k]
              ELSE isprime_loop(val, k + 2)
         ELSE [ub |-> FALSE, ret |-> TRUE, k |-> k]

\* constexpr bool isprime(int val) noexcept
isprime(val) ==
    IF val < 2 THEN [ub |-> FALSE, ret |-> FALSE, k |-> 0]
    ELSE IF val % 2 = 0 THEN [ub |-> FALSE, ret |-> val = 2, k |-> 0]
    ELSE IF val % 3 = 0 THEN [ub |-> FALSE, ret |-> val = 3, k |-> 0]
    ELSE IF val % 5 = 0 THEN [ub |-> FALSE, ret |-> val = 5, k |-> 0]
    ELSE isprime_loop(val, 7)

\* a / b of int operands, b > 0: the quotient is truncated towards zero
TruncDiv(a, b) == IF a >= 0 THEN a \div b ELSE -((-a) \div b)

\* while (val != 0) { val /= 10; ++digit_count; }  return digit_count;
RECURSIVE ndigit_loop(_, _)
ndigit_loop(val, digit_count) ==
    IF val # 0 THEN ndigit_loop(TruncDiv(val, 10), digit_count + 1)
    ELSE digit_count

\* (ndigit_zero_less: without the test for 0.)
ndigit_zero_less(val) == ndigit_loop(val, 0)

\* constexpr int ndigit(int val)
ndigit(val) == IF val = 0 THEN 1 ELSE ndigit_loop(val, 0)

\* a call of isprime; when the multiplication overflowed the build decides
\* what comes back
IsPrime(val) ==
    /\ LET r == isprime(val) IN
       \E ret \in (IF r.ub THEN BOOLEAN ELSE {r.ret}) :
           call' = [fn |-> "isprime", val |-> val, ret |-> ret, ub |-> r.ub,
                    k |-> r.k, digits |-> 0]
    /\ UNCHANGED <<genvars, os, c, fs, thr>>

NDigit(val) ==
    /\ call' = [fn |-> "ndigit", val |-> val, ret |-> FALSE, ub |-> FALSE,
                k |-> 0, digits |-> ndigit(val)]
    /\ UNCHANGED <<genvars, os, c, fs, thr>>

InitNum ==
    /\ GenIdle
    /\ call = NoCall
    /\ os = [st \in Streams |-> <<>>]
    /\ c = <<>>
    /\ fs = <<>>
    /\ thr = <<>>

NextNum ==
    \/ \E val \in NumInts : IsPrime(val)
    \/ \E val \in NumInts : NDigit(val)

SpecNum == InitNum /\ [][NextNum]_vars

\* a prime: a natural number above 1 that only 1 and itself divide
IsPrimeNumber(n) == n > 1 /\ \A dv \in 2..(n - 1) : n % dv # 0

\* C15: isprime(val) is true exactly when val is a prime number; it is false
\* for every val below 2.
IsPrimeExact ==
    call.fn = "isprime" => (call.ret <=> IsPrimeNumber(call.val))

\* the number of decimal digits of a natural number
DecimalDigits(n) == CHOOSE dg \in 1..NumBits : n < 10 ^ dg /\ (dg = 1 \/ n >= 10 ^ (dg - 1))

\* C16: ndigit(val) is the number of decimal digits of val without its sign:
\* 1 for 0, the same for val and -val, the most negative int included.
NDigitCountsDigits ==
    call.fn = "ndigit" =>
        /\ call.digits = DecimalDigits(Abs(call.val))
        /\ call.val # NumMin => call.digits = ndigit(-call.val)

\* the most negative int, which has no positive counterpart
NDigitCountsDigitsWitness ==
    /\ call.fn = "ndigit"
    /\ call.val = NumMin
    /\ call.digits = DecimalDigits(-NumMin)
    /\ call.digits > 1

\* ============================================================ random_name, random_surname
\* static constexpr const char* pnames[] = { ... }: the words by index
pnames == [i \in 0..(NameCount - 1) |-> <<"pnames", i>>]
pfnames == [i \in 0..(SurnameCount - 1) |-> <<"pfnames", i>>]

\* (random_index_size: the upper bound given as the size.)
random_index_size(size, st, sc) == UniformInt(0, size, st, sc)

\* Irand(0, (int)(std::size(pnames)) - 1)(): a generator made for the call
\* and drawn from once
random_index(size, st, sc) == UniformInt(0, size - 1, st, sc)

\* return words[Irand(0, size - 1)()]: the array read at the drawn index;
\* status oob is a read outside the array
RandomWord(fn, words, rdok, seed) ==
    /\ proc = "running"
    /\ LET u == Urng(eng, rdok, seed)
           size == Cardinality(DOMAIN words)
           r == random_index(size, u.eng.st, shortcut)
       IN  IF u.threw
           THEN /\ call' = [fn |-> fn, status |-> "threw", index |-> 0,
                            ret |-> <<>>, size |-> size, pre |-> eng]
                /\ UNCHANGED <<eng, handles, seed0>>
           ELSE /\ eng' = [id |-> u.eng.id, st |-> r.st]
                /\ handles' = handles \cup {u.eng.id}
                /\ seed0' = Seed0After(seed)
                /\ call' = IF r.value \in DOMAIN words
                           THEN [fn |-> fn, status |-> "ok", index |-> r.value,
                                 ret |-> words[r.value], size |-> size, pre |-> eng]
                           ELSE [fn |-> fn, status |-> "oob", index |-> r.value,
                                 ret |-> <<>>, size |-> size, pre |-> eng]
    /\ UNCHANGED <<proc, shortcut, gens, last, pos, os, c, fs, thr>>

random_name(rdok, seed) == RandomWord("random_name", pnames, rdok, seed)
random_surname(rdok, seed) == RandomWord("random_surname", pfnames, rdok, seed)

NextNames ==
    \/ \E rdok \in BOOLEAN, seed \in Seeds : random_name(rdok, seed)
    \/ \E rdok \in BOOLEAN, seed \in Seeds : random_surname(rdok, seed)
    \/ \E rdok \in BOOLEAN, seed \in Seeds, sd \in Seeds : HandleSeed(rdok, seed, sd)

SpecNames == Init /\ [][NextNames]_vars

NameFns == {"random_name", "random_surname"}

\* C17: the index random_name and random_surname draw lies in
\* [0, length - 1] on every call, whatever was called before: what they
\* return is a word of their list, and the array is never read outside.
WordIndexInBounds ==
    call.fn \in NameFns =>
        /\ call.status # "oob"
        /\ call.status = "ok" =>
              /\ 0 <= call.index /\ call.index <= call.size - 1
              /\ call.ret \in {pnames[i] : i \in DOMAIN pnames}
                               \cup {pfnames[i] : i \in DOMAIN pfnames}
              /\ call.ret[1] = (IF call.fn = "random_name" THEN "pnames" ELSE "pfnames")

\* the last surname, drawn from an engine that earlier calls have advanced
WordIndexInBoundsWitness ==
    /\ call.fn = "random_surname" /\ call.status = "ok"
    /\ call.index = SurnameCount - 1
    /\ call.pre.id = 1
    /\ call.pre.st # SeedState(0) /\ call.pre.st # SeedState(1)

\* ============================================================ print, operator<< for std::pair
\* What a stream has received is the sequence of the character strings
\* inserted into it. os << x for an int x inserts its decimal form.
Fmt(x) == ToString(x)

\* return os << "\n-----...-----\n";
DashLine == <<"\n-----------------------------------------------------------------------------\n">>
dash_line(out) == out \o DashLine

\* (print_between: psep between the elements only.)
RECURSIVE print_between(_, _, _)
print_between(elems, psep, out) ==
    IF elems = <<>> THEN dash_line(out)
    ELSE IF Len(elems) = 1 THEN print_between(Tail(elems), psep, out \o <<Fmt(Head(elems))>>)
    ELSE print_between(Tail(elems), psep, out \o <<Fmt(Head(elems)), psep>>)

\* for (const auto& elem : c) os << elem << psep;
\* os << dash_line;
RECURSIVE print(_, _, _)
print(elems, psep, out) ==
    IF elems = <<>> THEN dash_line(out)
    ELSE print(Tail(elems), psep, out \o <<Fmt(Head(elems)), psep>>)

\* while (beg != end) { os << *beg++ << psep; }
\* os << dash_line;
\* beg and end are positions in elems; end is one past the last element
RECURSIVE print_range(_, _, _, _, _)
print_range(elems, beg, end, psep, out) ==
    IF beg # end
    THEN print_range(elems, beg + 1, end, psep, out \o <<Fmt(elems[beg]), psep>>)
    ELSE dash_line(out)

\* (insert_pair_open: without the closing bracket.)
insert_pair_open(out, pr) == out \o <<"[", Fmt(pr[1]), ", ", Fmt(pr[2])>>

\* return os << "[" << p.first << ", " << p.second << "]";
insert_pair(out, pr) == out \o <<"[", Fmt(pr[1]), ", ", Fmt(pr[2]), "]">>

Pseps == {" ", ", "}
CanWrite(st) == Len(os[st]) <= MaxOut

\* print(c, psep, os)
PrintCollection(elems, psep, st) ==
    /\ CanWrite(st)
    /\ os' = [os EXCEPT ![st] = print(elems, psep, @)]
    /\ call' = [fn |-> "print", overload |-> "collection", elems |-> elems,
                psep |-> psep, stream |-> st, ret |-> "void", pre |-> os]
    /\ UNCHANGED <<genvars, c, fs, thr>>

\* print(beg, end, psep, os) on the positions beg, end of a container
PrintRange(elems, beg, end, psep, st) ==
    /\ CanWrite(st)
    /\ beg <= end
    /\ os' = [os EXCEPT ![st] = print_range(elems, beg, end, psep, @)]
    /\ call' = [fn |-> "print", overload |-> "range",
                elems |-> SubSeq(elems, beg, end - 1),
                psep |-> psep, stream |-> st, ret |-> "void", pre |-> os]
    /\ UNCHANGED <<genvars, c, fs, thr>>

\* os << p for a std::pair p; the call returns a reference to a stream
PairInsert(pr, st) ==
    /\ CanWrite(st)
    /\ os' = [os EXCEPT ![st] = insert_pair(@, pr)]
    /\ call' = [fn |-> "operator<<", overload |-> "pair", elems |-> pr,
                psep |-> "", stream |-> st, ret |-> st, pre |-> os]
    /\ UNCHANGED <<genvars, c, fs, thr>>

InitPrint ==
    /\ GenIdle
    /\ call = NoCall
    /\ os = [st \in Streams |-> <<>>]
    /\ c = <<>>
    /\ fs = <<>>
    /\ thr = <<>>

NextPrint ==
    \/ \E elems \in SeqsUpTo(MaxPrint), psep \in Pseps, st \in Streams :
          PrintCollection(elems, psep, st)
    \/ \E elems \in SeqsUpTo(MaxPrint), psep \in Pseps, st \in Streams :
          \E beg \in 1..(Len(elems) + 1), end \in 1..(Len(elems) + 1) :
              PrintRange(elems, beg, end, psep, st)
    \/ \E pr \in Elems \X Elems, st \in Streams : PairInsert(pr, st)

SpecPrint == InitPrint /\ [][NextPrint]_vars

\* each element followed by psep, then the dash line
ElemsThenDash(elems, psep) ==
    [i \in 1..(2 * Len(elems) + 1) |->
        IF i = 2 * Len(elems) + 1 THEN DashLine[1]
        ELSE IF i % 2 = 1 THEN Fmt(elems[(i + 1) \div 2])
        ELSE psep]
Written == SubSeq(os[call.stream], Len(call.pre[call.stream]) + 1, Len(os[call.stream]))
OnlyAppended ==
    /\ SubSeq(os[call.stream], 1, Len(call.pre[call.stream])) = call.pre[call.stream]
    /\ \A st \in Streams \ {call.stream} : os[st] = call.pre[st]

PairWritesBrackets ==
    (call.fn = "operator<<" /\ call.overload = "pair") =>
        /\ OnlyAppended
        /\ Written = <<"[", Fmt(call.elems[1]), ", ", Fmt(call.elems[2]), "]">>
        /\ call.ret = call.stream

\* a pair written to std::cerr after something else
PairWritesBracketsWitness ==
    /\ call.fn = "operator<<" /\ call.overload = "pair"
    /\ call.stream = "cerr" /\ call.ret = "cerr"
    /\ call.elems = <<1, 0>>
    /\ call.pre["cerr"] # <<>>
    /\ Written = <<"[", "1", ", ", "0", "]">>

\* ============================================================ draws from two threads
\* Each thread draws from a generator of its own; the engine behind urng()
\* is the one object of the process. thr.serialized says whether the callers
\* keep a mutex of theirs around every draw (thr.lock: who holds it).
\* m_dist(urng()) is a read of the engine state, a computation and a write
\* back, with no lock taken in between: a thread is "drawing" from the read
\* to the write. thr.snap is the state a drawing thread has read, thr.raced
\* whether another thread was drawing during its draw, thr.done the draw
\* completed last.
Threads == {"t1", "t2"}
GenOf(t) == IF t = "t1" THEN "A" ELSE "B"
NoDraw == [t |-> "-", status |-> "none", in |-> 0, out |-> 0, calls |-> 0, value |-> 0]
OthersDrawing(t) == {u \in Threads \ {t} : thr.pc[u] = "drawing"}

\* the caller's std::lock_guard before the draw
Lock(t) ==
    /\ thr.serialized
    /\ thr.pc[t] = "idle"
    /\ thr.lock = "free"
    /\ thr' = [thr EXCEPT !.lock = t, !.pc[t] = "locked"]
    /\ UNCHANGED <<genvars, call, os, c, fs>>

\* int Irand::operator()() { return m_dist(urng()); } up to the read of the
\* engine state: urng() hands out the static engine, constructing it if it
\* is the first call (the initialisation of a local static is guarded by the
\* language); the exception of random_device ends the draw
DrawBegin(t, rdok, seed) ==
    /\ thr.pc[t] = (IF thr.serialized THEN "locked" ELSE "idle")
    /\ LET u == Urng(eng, rdok, seed) IN
       IF u.threw
       THEN /\ thr' = [thr EXCEPT !.pc[t] = "drawn",
                                  !.done = [NoDraw EXCEPT !.t = t, !.status = "threw"]]
            /\ UNCHANGED <<eng, handles>>
       ELSE /\ eng' = u.eng
            /\ handles' = handles \cup {u.eng.id}
            /\ thr' = [thr EXCEPT
                         !.pc[t] = "drawing",
                         !.snap[t] = u.eng.st,
                         !.raced = [v \in Threads |->
                                      IF v = t THEN OthersDrawing(t) # {}
                                      ELSE thr.raced[v] \/ thr.pc[v] = "drawing"]]
    /\ UNCHANGED <<proc, shortcut, gens, last, seed0, pos, call, os, c, fs>>

\* the rest of the draw: the value and the new engine state come from the
\* state read at the start and are written back. A draw that ran while
\* another thread was drawing is a data race: undefined behaviour, any
\* engine state and any int may result.
DrawEnd(t) ==
    /\ thr.pc[t] = "drawing"
    /\ LET g == gens[GenOf(t)]
           r == UniformInt(g.a, g.b, thr.snap[t], shortcut)
       IN  IF thr.raced[t]
           THEN \E st \in 0..(EngMod - 1) :
                  /\ eng' = [eng EXCEPT !.st = st]
                  /\ thr' = [thr EXCEPT !.pc[t] = "drawn", !.snap[t] = 0,
                                        !.raced[t] = FALSE,
                                        !.done = [NoDraw EXCEPT !.t = t, !.status = "raced"]]
           ELSE /\ eng' = [eng EXCEPT !.st = r.st]
                /\ thr' = [thr EXCEPT !.pc[t] = "drawn", !.snap[t] = 0,
                                      !.done = [t |-> t, status |-> "ok",
                                                in |-> thr.snap[t], out |-> r.st,
                                                calls |-> r.calls, value |-> r.value]]
    /\ UNCHANGED <<proc, shortcut, gens, last, handles, seed0, pos, call, os, c, fs>>

\* back in the caller; the lock_guard, if there is one, goes out of scope
Return(t) ==
    /\ thr.pc[t] = "drawn"
    /\ thr' = [thr EXCEPT !.pc[t] = "idle",
                          !.lock = IF thr.lock = t THEN "free" ELSE @]
    /\ UNCHANGED <<genvars, call, os, c, fs>>

InitThreads ==
    /\ proc = "running"
    /\ shortcut = FALSE
    /\ eng = [id |-> 0, st |-> 0]
    /\ gens = [g \in GenIds |-> [kind |-> "int", a |-> 0, b |-> INT_MAX]]
    /\ last = NoLast
    /\ handles = {}
    /\ seed0 = 0
    /\ pos = 0
    /\ call = NoCall
    /\ os = [st \in Streams |-> <<>>]
    /\ c = <<>>
    /\ fs = <<>>
    /\ \E sz \in BOOLEAN :
          thr = [serialized |-> sz, lock |-> "free",
                 pc |-> [t \in Threads |-> "idle"],
                 snap |-> [t \in Threads |-> 0],
                 raced |-> [t \in Threads |-> FALSE],
                 done |-> NoDraw]

NextThreads ==
    \/ \E t \in Threads : Lock(t)
    \/ \E t \in Threads, rdok \in BOOLEAN, seed \in Seeds : DrawBegin(t, rdok, seed)
    \/ \E t \in Threads : DrawEnd(t)
    \/ \E t \in Threads : Return(t)

SpecThreads == InitThreads /\ [][NextThreads]_vars

Overlap == \E t \in Threads : thr.pc[t] = "drawing" /\ OthersDrawing(t) # {}

\* C20: when the callers serialize every draw, no two draws overlap on the
\* engine: no draw runs while another does, and every completed draw has
\* moved the engine from the state it read by the words it took. (Without
\* serialization overlapping draws are reachable: the witness.)
SerializedDrawsDoNotOverlap ==
    thr.serialized =>
        /\ ~Overlap
        /\ \A t \in Threads : ~thr.raced[t]
        /\ \A t \in Threads : thr.pc[t] = "drawing" => thr.lock = t /\ thr.snap[t] = eng.st
        /\ thr.done.status \in {"none", "threw", "ok"}
        /\ thr.done.status = "ok" =>
              /\ thr.done.calls >= 1
              /\ thr.done.out = EngAdvance(thr.done.in, thr.done.calls)

\* no serialization: a thread writes the engine state back while the other
\* thread, which started drawing in the meantime, is still drawing
SerializedDrawsDoNotOverlapWitness ==
    /\ ~thr.serialized
    /\ thr.done.status = "raced"
    /\ thr.pc[thr.done.t] = "drawn"
    /\ \E u \in Threads \ {thr.done.t} : thr.pc[u] = "drawing" /\ thr.raced[u]

\* ============================================================ first calls from two threads
\* static std::mt19937 eng{ std::random_device{}() } in urng(), as several
\* threads meet it. The language guards the initialisation of a local
\* static: thr.guard is "uninit" (not initialised), "running" (a thread is
\* in the initialiser) or "done". A thread that arrives while the
\* initialiser runs waits; an initialiser that throws leaves the static
\* uninitialised and the next thread tries again. The initialiser evaluates
\* std::random_device{}(): it asks the platform for entropy (io).
\* Per thread: pc (where it is), op (the operation it is in or was in last),
\* found (the guard as that operation found it), io and waited (whether the
\* operation asked for entropy, waited at the guard), ref (the
\* engine object its last urng() returned, 0: none), called (urng() has
\* returned or thrown once). thr.built counts the constructions.

\* (StaticGuardNone: the static without the guard, every thread that finds
\* it not yet initialised runs the initialiser.)
StaticGuardNone(guard) ==
    IF guard = "done" THEN "holding" ELSE "seeding"

\* (StaticGuardAlways: the engine initialised by every call.)
StaticGuardAlways(guard) ==
    IF guard = "running" THEN "waiting" ELSE "seeding"

\* where a thread that reaches the declaration goes
StaticGuard(guard) ==
    IF guard = "done" THEN "holding"
    ELSE IF guard = "uninit" THEN "seeding"
    ELSE "waiting"

\* the thread is at the declaration of the static
AtGuard(t) ==
    LET to == StaticGuard(thr.guard) IN
    [thr EXCEPT !.pc[t] = to,
                !.guard = IF to = "seeding" THEN "running" ELSE @,
                !.waited[t] = @ \/ to = "waiting",
                !.ref[t] = IF to = "holding" THEN eng.id ELSE 0,
                !.called[t] = @ \/ to = "holding"]

\* Irand rand{ 0, INT_MAX }: the bounds are stored, nothing else happens
Construct(t) ==
    /\ thr.pc[t] = "idle"
    /\ gens' = [gens EXCEPT ![GenOf(t)] = [kind |-> "int", a |-> 0, b |-> INT_MAX]]
    /\ thr' = [thr EXCEPT !.op[t] = "ctor", !.found[t] = thr.guard,
                          !.io[t] = FALSE, !.waited[t] = FALSE]
    /\ UNCHANGED <<proc, shortcut, eng, last, handles, seed0, pos, call, os, c, fs>>

\* a call of urng(), by the caller (op = "urng") or by Irand::operator()
\* (op = "draw"), up to the declaration of the static
Enter(t, op) ==
    /\ thr.pc[t] = "idle"
    /\ op = "draw" => gens[GenOf(t)].kind = "int"
    /\ thr' = [AtGuard(t) EXCEPT !.op[t] = op, !.found[t] = thr.guard,
                                 !.io[t] = FALSE,
                                 !.waited[t] = StaticGuard(thr.guard) = "waiting"]
    /\ UNCHANGED <<genvars, call, os, c, fs>>

\* the initialiser: std::random_device{}() and the construction of the engine
\* from its value, or its exception
Seed(t, rdok, seed) ==
    /\ thr.pc[t] = "seeding"
    /\ IF rdok
       THEN /\ eng' = [id |-> 1, st |-> SeedState(seed)]
            /\ handles' = handles \cup {1}
            /\ thr' = [thr EXCEPT !.pc[t] = "holding", !.guard = "done",
                                  !.io[t] = TRUE, !.ref[t] = 1, !.called[t] = TRUE,
                                  !.built = IF @ < 2 THEN @ + 1 ELSE @]
       ELSE /\ thr' = [thr EXCEPT !.pc[t] = "threw",
                                  !.guard = IF @ = "running" THEN "uninit" ELSE @,
                                  !.io[t] = TRUE, !.called[t] = TRUE]
            /\ UNCHANGED <<eng, handles>>
    /\ UNCHANGED <<proc, shortcut, gens, last, seed0, pos, call, os, c, fs>>

\* a waiting thread goes on once no initialiser runs
Wake(t) ==
    /\ thr.pc[t] = "waiting"
    /\ thr.guard # "running"
    /\ thr' = AtGuard(t)
    /\ UNCHANGED <<genvars, call, os, c, fs>>

\* return eng; and, in a draw, the distribution run on the engine (its steps
\* among those of other threads are followed in SpecThreads); an exception
\* has reached the caller
Leave(t) ==
    /\ thr.pc[t] \in {"holding", "threw"}
    /\ thr' = [thr EXCEPT !.pc[t] = "idle"]
    /\ eng' = IF thr.pc[t] = "holding" /\ thr.op[t] = "draw"
              THEN [eng EXCEPT !.st = UniformInt(0, INT_MAX, eng.st, shortcut).st]
              ELSE eng
    /\ UNCHANGED <<proc, shortcut, gens, last, handles, seed0, pos, call, os, c, fs>>

InitFirst ==
    /\ GenIdle
    /\ call = NoCall
    /\ os = [st \in Streams |-> <<>>]
    /\ c = <<>>
    /\ fs = <<>>
    /\ thr = [guard |-> "uninit", built |-> 0,
              pc |-> [t \in Threads |-> "idle"],
              op |-> [t \in Threads |-> "none"],
              found |-> [t \in Threads |-> "uninit"],
              io |-> [t \in Threads |-> FALSE],
              waited |-> [t \in Threads |-> FALSE],
              ref |-> [t \in Threads |-> 0],
              called |-> [t \in Threads |-> FALSE]]

NextFirst ==
    \/ \E t \in Threads : Construct(t)
    \/ \E t \in Threads, op \in {"urng", "draw"} : Enter(t, op)
    \/ \E t \in Threads, rdok \in BOOLEAN, seed \in Seeds : Seed(t, rdok, seed)
    \/ \E t \in Threads : Wake(t)
    \/ \E t \in Threads : Leave(t)

SpecFirst == InitFirst /\ [][NextFirst]_vars

\* C21 (as stated): no operation of the facility waits or performs I/O, the
\* first call of urng() included.
NoOpBlocksOrDoesIO ==
    \A t \in Threads : ~thr.io[t] /\ ~thr.waited[t]

\* C21 (amended): only a call of urng(), direct or in a draw, that finds the
\* engine not yet constructed does: it evaluates std::random_device{}() or
\* waits for the thread that does. A constructor never does, nor does any
\* call that finds the engine constructed.
OnlyUnbuiltBlocksOrDoesIO ==
    \A t \in Threads :
        /\ (thr.io[t] \/ thr.waited[t]) =>
              thr.op[t] \in {"urng", "draw"} /\ thr.found[t] # "done"
        /\ thr.pc[t] \in {"seeding", "waiting"} => thr.found[t] # "done"

\* a draw that waited for the other thread's initialiser and then got the
\* engine, and a later draw of the other thread that did neither
OnlyUnbuiltBlocksOrDoesIOWitness ==
    /\ thr.op["t2"] = "draw" /\ thr.waited["t2"] /\ ~thr.io["t2"]
    /\ thr.pc["t2"] = "holding" /\ thr.ref["t2"] = 1
    /\ thr.op["t1"] = "draw" /\ thr.found["t1"] = "done"
    /\ thr.pc["t1"] = "holding" /\ ~thr.io["t1"] /\ ~thr.waited["t1"]

\* ============================================================ what a draw leaves alone
\* C22: a draw changes the bounds of no generator, its own or another's:
\* they are as the constructors left them. Of the state of the program a draw
\* changes the shared engine alone.
DrawKeepsBounds ==
    [][last'.op = "draw" =>
          /\ gens' = gens
          /\ proc' = proc /\ shortcut' = shortcut
          /\ UNCHANGED utilvars]_vars

\* a draw from A after earlier draws, B being a generator of the other kind
\* with other bounds: both as constructed
DrawKeepsBoundsWitness ==
    /\ DrewInt /\ last.g = "A"
    /\ gens["A"] = [kind |-> "int", a |-> 0, b |-> INT_MAX]
    /\ gens["B"] = [kind |-> "real", a |-> 0, b |-> 1]
    /\ last.value # last.a
    /\ pos > last.calls

\* ============================================================ k * k in isprime
\* C23: no evaluation of k * k in the loop of isprime gives a product above
\* the largest int, whatever val is.
IsPrimeSquareFits ==
    call.fn = "isprime" => (~call.ub /\ call.k * call.k <= NumMax)

\* ============================================================ concurrent first calls of urng()
Seeding == {t \in Threads : thr.pc[t] = "seeding"}

\* C24 (as stated): threads that make their first call of urng() together
\* find the engine constructed exactly once, and each of them receives a
\* reference to it.
FirstCallsBuildOnce ==
    /\ thr.built <= 1
    /\ \A t \in Threads : thr.pc[t] # "threw"
    /\ (\A t \in Threads : thr.called[t]) => thr.built = 1

\* C24 (amended): the engine is constructed at most once, by one thread at a
\* time and never again after a construction has succeeded; a reference is
\* only handed out to the constructed engine, the same to every thread. A
\* thread whose initialiser throws receives the exception instead, and the
\* construction is left to a later call.
GuardedFirstCalls ==
    /\ thr.built <= 1
    /\ eng.id = thr.built
    /\ thr.guard = "done" <=> thr.built = 1
    /\ Cardinality(Seeding) <= 1
    /\ thr.guard = "running" <=> Seeding # {}
    /\ \A t \in Threads :
          /\ thr.pc[t] = "holding" => (thr.ref[t] = 1 /\ eng.id = 1 /\ thr.guard = "done")
          /\ thr.ref[t] \in {0, eng.id}
          /\ thr.pc[t] = "threw" => (thr.io[t] /\ thr.ref[t] = 0)

\* both threads in their first call: one ran the initialiser, the other
\* arrived meanwhile and waited, and both hold the one engine
GuardedFirstCallsWitness ==
    /\ thr.built = 1
    /\ thr.io["t1"] /\ ~thr.waited["t1"] /\ thr.found["t1"] = "uninit"
    /\ thr.waited["t2"] /\ ~thr.io["t2"] /\ thr.found["t2"] = "running"
    /\ \A t \in Threads : thr.pc[t] = "holding" /\ thr.ref[t] = eng.id

\* ============================================================ rfill on a std::set, fcs
\* A container of unique keys takes a value it already holds without
\* growing, so the loops below run until enough different values have come.
\* Every pass of a loop is a step. call.range is the set of values the
\* caller's generator can yield, call.s the local set of fcs.
SetVals == 0..(MaxFill - 1)
SortedSeq(S) ==
    CHOOSE sq \in [1..Cardinality(S) -> S] :
        \A i \in 1..Cardinality(S), j \in 1..Cardinality(S) : i < j => sq[i] < sq[j]

\* (set_rfill_more_inclusive: the loop test as c.size() <= n.)
set_rfill_more_inclusive(elems, n) == Cardinality(elems) <= n

\* while (c.size() < n)
set_rfill_more(elems, n) == Cardinality(elems) < n

\* while (s.size() != n)
fcs_more(elems, n) == Cardinality(elems) # n

\* rfill(c, n, frand) is called on a std::set
RfillSetCall(n, range) ==
    /\ call = NoCall
    /\ c.kind = "set"
    /\ call' = [fn |-> "rfill", n |-> n, range |-> range, status |-> "running",
                pre |-> c.elems, s |-> {}]
    /\ UNCHANGED <<genvars, os, c, fs, thr>>

\* c.insert(c.end(), frand()); with frand() = v
RfillSetInsert(v) ==
    /\ call.fn = "rfill" /\ call.status = "running"
    /\ v \in call.range
    /\ set_rfill_more(c.elems, call.n)
    /\ c' = [c EXCEPT !.elems = @ \cup {v}]
    /\ UNCHANGED <<genvars, call, os, fs, thr>>

\* the loop test fails: rfill returns
RfillSetReturn ==
    /\ call.fn = "rfill" /\ call.status = "running"
    /\ ~set_rfill_more(c.elems, call.n)
    /\ call' = [call EXCEPT !.status = "returned"]
    /\ UNCHANGED <<genvars, os, c, fs, thr>>

\* fcs(c, n, func) is called on a container with assign:
\* std::set<typename C::value_type> s;
FcsCall(n, range) ==
    /\ call = NoCall
    /\ c.kind = "vector"
    /\ call' = [fn |-> "fcs", n |-> n, range |-> range, status |-> "running",
                pre |-> c.elems, s |-> {}]
    /\ UNCHANGED <<genvars, os, c, fs, thr>>

\* s.insert(func()); with func() = v
FcsInsert(v) ==
    /\ call.fn = "fcs" /\ call.status = "running"
    /\ v \in call.range
    /\ fcs_more(call.s, call.n)
    /\ call' = [call EXCEPT !.s = @ \cup {v}]
    /\ UNCHANGED <<genvars, os, c, fs, thr>>

\* c.assign(s.begin(), s.end()); and the return
FcsReturn ==
    /\ call.fn = "fcs" /\ call.status = "running"
    /\ ~fcs_more(call.s, call.n)
    /\ c' = [c EXCEPT !.elems = SortedSeq(call.s)]
    /\ call' = [call EXCEPT !.status = "returned"]
    /\ UNCHANGED <<genvars, os, fs, thr>>

InitSet ==
    /\ GenIdle
    /\ call = NoCall
    /\ os = [st \in Streams |-> <<>>]
    /\ fs = <<>>
    /\ thr = <<>>
    /\ \/ c \in [kind : {"set"}, elems : SUBSET SetVals]
       \/ c \in [kind : {"vector"}, elems : SeqsUpTo(1)]

NextSet ==
    \/ \E n \in 0..MaxFill, range \in (SUBSET SetVals) \ {{}} : RfillSetCall(n, range)
    \/ \E v \in SetVals : RfillSetInsert(v)
    \/ RfillSetReturn
    \/ \E n \in 0..MaxFill, range \in (SUBSET SetVals) \ {{}} : FcsCall(n, range)
    \/ \E v \in SetVals : FcsInsert(v)
    \/ FcsReturn

\* fair random choice: a value the generator can yield is not withheld for
\* ever, and a loop whose test fails is left
SpecSet ==
    /\ InitSet /\ [][NextSet]_vars
    /\ \A v \in SetVals : WF_vars(RfillSetInsert(v)) /\ WF_vars(FcsInsert(v))
    /\ WF_vars(RfillSetReturn) /\ WF_vars(FcsReturn)

FillRunning == call.fn \in {"rfill", "fcs"} /\ call.status = "running"
FillReturned == call.fn \in {"rfill", "fcs"} /\ call.status = "returned"
\* the keys the container can come to hold: those it held at the call of
\* rfill (none of them count for fcs, which starts from an empty set) and
\* the values of the generator
KeysAvailable ==
    IF call.fn = "rfill" THEN call.pre \cup call.range ELSE call.range

\* C25 (as stated): rfill on a set and fcs never return when the generator
\* can yield fewer than n distinct values.
ReturnsOnlyWithNDistinct ==
    FillReturned => Cardinality(call.range) >= call.n

\* C25 (amended): they return only when n keys are available, for rfill the
\* keys the set held at the call included, and under fair random choice they
\* do return then: rfill with at least n keys in the set, fcs with exactly
\* the n smallest-first keys it collected assigned to the container.
FillReturnsIffAvailable ==
    /\ [](FillReturned =>
            /\ Cardinality(KeysAvailable) >= call.n
            /\ call.fn = "rfill" =>
                  /\ Cardinality(c.elems) >= call.n
                  /\ call.pre \subseteq c.elems
                  /\ c.elems \subseteq KeysAvailable
            /\ call.fn = "fcs" =>
                  /\ Len(c.elems) = call.n
                  /\ c.elems = SortedSeq(call.s)
                  /\ call.s \subseteq call.range)
    /\ (FillRunning /\ Cardinality(KeysAvailable) >= call.n) ~> FillReturned

\* rfill has returned with n = 3 keys in a set that held two of them, the
\* generator yielding one value only
FillReturnsIffAvailableWitness ==
    /\ FillReturned /\ call.fn = "rfill"
    /\ call.n = 3 /\ Cardinality(call.pre) = 2 /\ Cardinality(call.range) = 1
    /\ Cardinality(c.elems) = 3

====
